---- MODULE Spec2Model ----
(***************************************************************************)
(* State-machine model of the NUKEM bot's admission layer (utils.py:       *)
(* chat-type gate, cooldown gate, authorization gate, rate limiter), of    *)
(* the decorator stacks handlers.py puts on its command handlers, and of   *)
(* the moderation store (db.py) with the handler bodies that use it.       *)
(*                                                                         *)
(* Scheduling: the handlers are asyncio coroutines.  Code between two      *)
(* awaits that suspend runs without interleaving, so every action below    *)
(* is one such segment; tasks interleave only between actions.             *)
(***************************************************************************)
EXTENDS Integers, Sequences, FiniteSets, TLC

\* ------------------------------------------------------------------ bounds
\* Clock value at start-up (seconds).  time.time() is an epoch value that
\* exceeds every cooldown, so the default last_usage of 0.0 never blocks.
StartTime == 100
\* How many seconds the clock runs on.
Horizon == 5
\* Handler invocations in flight at once.
MaxTasks == 2
\* Direct calls of the rate limiter in one run.
MaxRateCalls == 7
\* Documents the warnings collection may hold.
MaxWarnings == 3
\* Documents the mutes collection may hold.
MaxMutes == 1
\* Calls of Database methods in one run.
MaxOps == 3
\* The most consecutive transient failures the store answers one call with.
MaxFails == 3
\* Calls of retry-wrapped methods in one run.
MaxRetryOps == 2

MaxTime == StartTime + Horizon

\* --------------------------------------------------------- configuration
\* constants.py:77-86: the global admin set, read once from the environment.
ADMIN_USER_IDS == {1}
Users == {1, 2, 3}
\* Variant: nobody passes for a global admin.
IsGlobalAdminNever(u) == FALSE

\* utils.py:97, 133, 203: `user_id in ADMIN_USER_IDS`
IsGlobalAdmin(u) == u \in ADMIN_USER_IDS
\* The members moderation acts on.
Targets == {3}
\* One group chat and one private chat.
Chats == {"grp", "priv"}
ChatType(chat) == IF chat = "grp" THEN "supergroup" ELSE "private"

\* The platform's id of a chat as user u sees it: a private chat carries the
\* id of the user, a group an id of its own.
ChatId(chat, u) == IF ChatType(chat) = "private" THEN u ELSE -100
\* What RateLimiter._cache can be keyed by.
Keys == Users \cup {ChatId(c, u) : c \in Chats, u \in Users}

\* Variant: a window per chat.
KeyOfChat(user_id, chat_id) == chat_id

\* utils.py:51-55: `key = user_id`; the chat_id parameter is not used.
Key(user_id, chat_id) == user_id

\* constants.py:89
RATE_LIMIT_PERIOD == 5
\* utils.py:61
MAX_REQUESTS == 5
\* constants.py:90-101
COMMAND_COOLDOWNS ==
    [default |-> 5, nukem |-> 60, scan_alien |-> 30, mention_all |-> 120,
     rate_user |-> 10, warn |-> 10, karma |-> 5, stats |-> 10, info |-> 10,
     help |-> 5]

\* dict.get(key, dflt)
DictGet(d, key, dflt) == IF key \in DOMAIN d THEN d[key] ELSE dflt

\* utils.py:137.  dflt is <<>> for None and <<n>> for a given number.
CooldownSeconds(command_name, dflt) ==
    DictGet(COMMAND_COOLDOWNS, command_name,
            IF dflt # <<>> THEN dflt[1] ELSE DictGet(COMMAND_COOLDOWNS, "default", 5))

\* ------------------------------------------------------- decorator stacks
Gate(kind, allowed, name, fetch) ==
    [kind |-> kind, allowed |-> allowed, name |-> name, fetch |-> fetch]
GChat(allowed) == Gate("chat_type_allowed", allowed, "", FALSE)
GCool(name) == Gate("command_cooldown", {}, name, FALSE)
GAdmin(fetch) == Gate("admin_required", {}, "", fetch)
GErr == Gate("error_handler", {}, "", FALSE)

GroupOnly == {"group", "supergroup"}

\* The decorators of each handler, outermost first (handlers.py).
Stack(cmd) ==
    CASE cmd = "help_nukem"  -> << GAdmin(FALSE), GCool("help_nukem") >>
      [] cmd = "mention_all" -> << GChat(GroupOnly), GCool("mentionall"), GAdmin(FALSE), GErr >>
      [] cmd = "warn"        -> << GChat(GroupOnly), GCool("warn"), GAdmin(TRUE), GErr >>
      [] cmd = "unmute"      -> << GChat(GroupOnly), GCool("unmute"), GAdmin(TRUE), GErr >>
      [] cmd = "unwarn"      -> << GChat(GroupOnly), GCool("unwarn"), GAdmin(TRUE), GErr >>
      [] cmd = "give_karma"  -> << GChat(GroupOnly), GCool("give_karma"), GAdmin(TRUE), GErr >>
      [] cmd = "remove_karma" -> << GChat(GroupOnly), GCool("remove_karma"), GAdmin(TRUE), GErr >>

\* Commands the cooldown specification dispatches.
Commands == {"mention_all"}
\* Commands the authorization specification dispatches.
AuthCommands == {"help_nukem", "unmute"}
\* Commands the moderation specification dispatches.
ModCommands == {"warn", "unmute", "unwarn"}
\* The commands that change karma.
KarmaCommands == {"give_karma", "remove_karma"}

CooldownNames == {"help_nukem", "mentionall", "warn", "unmute", "unwarn",
                  "give_karma", "remove_karma"}

VARIABLES
    now,              \* the clock: time.time() / datetime.now().timestamp()
    LAST_COMMAND_USAGE, \* utils.py:120: command name -> user id -> timestamp (NoTime: no entry)
    cache,            \* RateLimiter._cache: user id -> list of timestamps
    chat_admins,      \* context.chat_data['chat_admins'] of each chat
    status,           \* the platform's truth: chat -> user -> member status
    dbConnected,      \* whether context.bot_data['db'] holds a Database
    tasks,            \* handler invocations: in flight, or finished and not yet replaced
    warnings,         \* the documents of the store's warnings collection
    mutes,            \* the documents of the store's mutes collection
    restricted,       \* the platform: chat -> users whose send permission is revoked
    lastAdmit,        \* history: command name -> user id -> time of the last cooldown admission
    rateCalls,        \* how many calls of the rate-limit gate were made
    rateAdmits,       \* history: per user, the times of the last MAX_REQUESTS+1 admissions
    rateLast,         \* history: the last decision of the rate-limit gate
    rateFrom,         \* history: per user, the chats its admissions since the window was last empty came from
    cacheNoCleanup,   \* history: RateLimiter._cache as it would be had cleanup never run
    lastCleanup,      \* history: the last run of RateLimiter.cleanup
    karma,            \* the store's karma collection: (chat, user) -> document
    karma0,           \* history: the karma collection at the start
    userDocs,         \* the store's users collection: (chat, user) -> document
    ops,              \* calls of Database methods: in flight, or finished
    utc_offset        \* the host's zone: datetime.now() minus datetime.utcnow(), in seconds

vars == << now, LAST_COMMAND_USAGE, cache, chat_admins, status, dbConnected, tasks,
           warnings, mutes, restricted, lastAdmit, rateCalls, rateAdmits, rateLast,
           rateFrom, cacheNoCleanup, lastCleanup, karma, karma0, userDocs, ops,
           utc_offset >>

gateVars == << LAST_COMMAND_USAGE, chat_admins, status, dbConnected, tasks, lastAdmit >>
storeVars == << warnings, mutes, restricted >>
rateVars == << cache, rateCalls, rateAdmits, rateLast, rateFrom, cacheNoCleanup, lastCleanup >>
opVars == << karma, karma0, userDocs, ops, utc_offset >>

TaskIds == 1..MaxTasks
NoTime == -1

\* A free slot.  result: the first rejection met, or "Allowed" once the
\* handler body has run.  coolAt, coolRes: when and how the cooldown gate
\* decided.  authRes, authTruth: how the authorization gate decided, and
\* whether the actor was a global admin or an administrator of the chat at
\* the moment the gate was entered.  apiFailed: a platform call of the gate
\* raised.  target, outcome: whom the handler body acted on, and how it ended.
\* replyTo: the author of the message the command replied to, as the body
\* read it (0: no reply, or the body never looked).  remaining: the seconds
\* the cooldown notice reported.  hasMessage: update.message is set (it is
\* not for an update that carries an edited message).  count: the warning
\* number warn_user's notice carried (NoTime: no notice carried one).
IdleTask ==
    [pc |-> "idle", user |-> 1, chat |-> "grp", cmd |-> "help_nukem", idx |-> 1,
     result |-> "none", ran |-> FALSE, coolAt |-> NoTime, coolRes |-> "none",
     authRes |-> "none", authTruth |-> FALSE, apiFailed |-> FALSE, notices |-> 0,
     target |-> 0, outcome |-> "none", replyTo |-> 0, remaining |-> NoTime,
     hasMessage |-> TRUE, count |-> NoTime]

\* context.chat_data without a 'chat_admins' key.
NoCache == [has |-> FALSE, ids |-> {}]
\* RateLimiter._cache without a key for the user.
NoWindow == [has |-> FALSE, ts |-> << >>]
\* No run of RateLimiter.cleanup yet.  changed: the keys whose list the run
\* shortened or deleted; calls: the calls of the gate made before it.
NoCleanup == [changed |-> {}, calls |-> 0]
\* No call of the rate-limit gate yet.
NoDecision == [user |-> 0, t |-> NoTime, limited |-> FALSE, prior |-> 0]

OpIds == 1..MaxOps

\* The (chat_id, user_id) pairs of the users and karma collections.
KarmaKeys == {<< "grp", 2 >>, << "grp", 3 >>}
\* No document for the pair.
NoKarma == [has |-> FALSE, karma |-> 0]
KarmaDoc(k) == [has |-> TRUE, karma |-> k]
NoUser == [has |-> FALSE, status |-> "none"]

\* A call not made yet.  fails: the transient failures the store still has in
\* stock for it; attempts: how often the method body ran; applied: how many
\* of its writes landed; seen: the pair's karma document when the call was
\* made; result: "ok" or the class of the exception the caller gets; cause:
\* the attempt whose store error that exception wraps; ret, docs: the value
\* and the documents returned.
IdleOp ==
    [pc |-> "idle", name |-> "update_karma", key |-> << "grp", 3 >>, change |-> 0,
     expiry |-> NoTime, fails |-> 0, planned |-> 0, attempts |-> 0, applied |-> 0,
     seen |-> NoKarma, result |-> "none", cause |-> 0, ret |-> 0, docs |-> << >>]

\* The zones a host may be set to: an hour west of UTC, UTC, an hour east.
Zones == {-3600, 0, 3600}

\* db.py:310, 513: datetime.utcnow(), where `now` is what datetime.now()
\* reads (db.py:268).  Both are naive datetimes.
UtcNow == now - utc_offset

\* Everything but the database handle, the karma collection and the host's
\* zone.
InitStores ==
    /\ now = StartTime
    /\ LAST_COMMAND_USAGE = [c \in CooldownNames |-> [u \in Users |-> NoTime]]
    /\ cache = [k \in Keys |-> NoWindow]
    /\ chat_admins = [c \in Chats |-> NoCache]
    /\ status = [c \in Chats |-> [u \in Users |->
                    IF c = "grp" /\ u = 2 THEN "administrator" ELSE "member"]]
    /\ tasks = [t \in TaskIds |-> IdleTask]
    /\ warnings = << >>
    /\ mutes = << >>
    /\ lastAdmit = [c \in CooldownNames |-> [u \in Users |-> NoTime]]
    /\ rateCalls = 0
    /\ rateAdmits = [u \in Users |-> << >>]
    /\ rateLast = NoDecision
    /\ rateFrom = [u \in Users |-> {}]
    /\ cacheNoCleanup = cache
    /\ lastCleanup = NoCleanup
    /\ userDocs = [k \in KarmaKeys |-> NoUser]
    /\ ops = [o \in OpIds |-> IdleOp]

\* handlers.py:91-102: nothing in the sources stores a Database under
\* bot_data['db'], so _get_db_instance returns None.  The host's clock is
\* set to UTC.
Init ==
    /\ InitStores
    /\ dbConnected = FALSE
    /\ restricted = [c \in Chats |-> {}]
    /\ karma = [k \in KarmaKeys |-> NoKarma]
    /\ karma0 = karma
    /\ utc_offset = 0

\* The same for a deployment that may have stored one, in a group where a
\* member may already be restricted on the platform.
InitDb ==
    /\ InitStores
    /\ dbConnected \in BOOLEAN
    /\ restricted \in [Chats -> SUBSET Targets]
    /\ restricted["priv"] = {}
    /\ karma = [k \in KarmaKeys |-> NoKarma]
    /\ karma0 = karma
    /\ utc_offset = 0

\* A store whose karma collection may already hold documents.
InitOps ==
    /\ InitStores
    /\ dbConnected = TRUE
    /\ restricted = [c \in Chats |-> {}]
    /\ karma \in [KarmaKeys -> {NoKarma, KarmaDoc(2)}]
    /\ karma0 = karma
    /\ utc_offset = 0

\* A connected store on a host in any of the zones.
InitZones ==
    /\ InitStores
    /\ dbConnected = TRUE
    /\ restricted = [c \in Chats |-> {}]
    /\ karma = [k \in KarmaKeys |-> NoKarma]
    /\ karma0 = karma
    /\ utc_offset \in Zones

\* ------------------------------------------------------------- the clock
\* d seconds pass.
Elapse(d) ==
    /\ now + d <= MaxTime
    /\ now' = now + d
    /\ UNCHANGED << gateVars, storeVars, rateVars, opVars >>

Tick == Elapse(1)

\* --------------------------------------------------------------- dispatch
\* An inbound command of user u in chat c: the outermost decorator is
\* entered.  The lowest free slot takes it.
Dispatch(t, u, c, cmd) ==
    /\ tasks[t].pc \in {"idle", "done"}
    /\ \A s \in TaskIds : s < t => tasks[s].pc \notin {"idle", "done"}
    /\ tasks' = [tasks EXCEPT ![t] =
                    [IdleTask EXCEPT !.pc = "gate", !.user = u, !.chat = c, !.cmd = cmd]]
    /\ UNCHANGED << now, LAST_COMMAND_USAGE, chat_admins, status, dbConnected,
                    lastAdmit, storeVars, rateVars, opVars >>

\* The same for an update whose message field is None: the command came in
\* an edited message.
DispatchNoMessage(t, u, c, cmd) ==
    /\ tasks[t].pc \in {"idle", "done"}
    /\ \A s \in TaskIds : s < t => tasks[s].pc \notin {"idle", "done"}
    /\ tasks' = [tasks EXCEPT ![t] =
                    [IdleTask EXCEPT !.pc = "gate", !.user = u, !.chat = c, !.cmd = cmd,
                                     !.hasMessage = FALSE]]
    /\ UNCHANGED << now, LAST_COMMAND_USAGE, chat_admins, status, dbConnected,
                    lastAdmit, storeVars, rateVars, opVars >>

CurGate(task) == Stack(task.cmd)[task.idx]

\* `return await func(...)`: the next decorator, or the handler body.
CallFunc(task) ==
    IF task.idx = Len(Stack(task.cmd))
    THEN [task EXCEPT !.pc = "body"]
    ELSE [task EXCEPT !.pc = "gate", !.idx = @ + 1]

\* Variant: the rejection is noticed and the wrapped function called anyway.
RejectAndContinue(task, kind) ==
    [CallFunc(task) EXCEPT !.result = kind, !.notices = @ + 1]

\* A gate's rejection: the notice, then `return None`.  chat_type_allowed
\* (utils.py:272-273) and admin_required (utils.py:243-244) send theirs only
\* `if update.message`; command_cooldown (utils.py:149) sends it in any case,
\* safe_markdown_message falling back on send_message (utils.py:40-43).
Reject(task, kind) ==
    [task EXCEPT !.pc = "done", !.result = kind,
                 !.notices = IF kind = "OnCooldown" \/ task.hasMessage THEN @ + 1 ELSE @]

\* ------------------------------------------------------- chat_type_allowed
\* utils.py:255-277
ChatTypeGate(t) ==
    LET task == tasks[t]
        g == CurGate(task)
    IN  /\ task.pc = "gate"
        /\ g.kind = "chat_type_allowed"
        /\ tasks' = [tasks EXCEPT ![t] =
                        IF ChatType(task.chat) \notin g.allowed
                        THEN Reject(task, "ChatTypeDenied")
                        ELSE CallFunc(task)]
        /\ UNCHANGED << now, LAST_COMMAND_USAGE, chat_admins, status, dbConnected,
                        lastAdmit, storeVars, rateVars, opVars >>

\* -------------------------------------------------------- command_cooldown
\* utils.py:139: LAST_COMMAND_USAGE[command_name].get(user_id, 0.0)
LastUsage(table, name, u) ==
    IF table[name][u] = NoTime THEN 0 ELSE table[name][u]

\* Variant: the cooldown ends one second early.
OnCooldownShort(current_time, last_usage, cooldown_seconds) ==
    current_time - last_usage < cooldown_seconds - 1

\* utils.py:141: the invocation is still inside the cooldown.
OnCooldown(current_time, last_usage, cooldown_seconds) ==
    current_time - last_usage < cooldown_seconds

\* Variant: the notice reports the seconds gone by.
RemainingElapsed(current_time, last_usage, cooldown_seconds) ==
    current_time - last_usage

\* utils.py:142: int(cooldown_seconds - (current_time - last_usage)); the
\* clock of the model counts whole seconds.
Remaining(current_time, last_usage, cooldown_seconds) ==
    cooldown_seconds - (current_time - last_usage)

\* Variant: the usage time is not written.
RecordUsageDropped(table, name, u, current_time) == table

\* utils.py:152: LAST_COMMAND_USAGE[command_name][user_id] = current_time
RecordUsage(table, name, u, current_time) ==
    [table EXCEPT ![name][u] = current_time]

\* utils.py:126-153.  No await lies between reading the clock (131), the
\* check (141) and the write (152): the gate is one step.
CooldownGate(t) ==
    LET task == tasks[t]
        g == CurGate(task)
        u == task.user
        cd == CooldownSeconds(g.name, << >>)
        last == LastUsage(LAST_COMMAND_USAGE, g.name, u)
    IN  /\ task.pc = "gate"
        /\ g.kind = "command_cooldown"
        /\ IF IsGlobalAdmin(u)
           THEN \* 133-134: admins bypass cooldowns
                /\ tasks' = [tasks EXCEPT ![t] =
                       [CallFunc(task) EXCEPT !.coolAt = now, !.coolRes = "bypass"]]
                /\ UNCHANGED << LAST_COMMAND_USAGE, lastAdmit >>
           ELSE IF OnCooldown(now, last, cd)
           THEN \* 141-150
                /\ tasks' = [tasks EXCEPT ![t] =
                       [Reject(task, "OnCooldown") EXCEPT !.coolAt = now, !.coolRes = "rejected",
                                                          !.remaining = Remaining(now, last, cd)]]
                /\ UNCHANGED << LAST_COMMAND_USAGE, lastAdmit >>
           ELSE \* 152-153
                /\ LAST_COMMAND_USAGE' = RecordUsage(LAST_COMMAND_USAGE, g.name, u, now)
                /\ lastAdmit' = [lastAdmit EXCEPT ![g.name][u] = now]
                /\ tasks' = [tasks EXCEPT ![t] =
                       [CallFunc(task) EXCEPT !.coolAt = now, !.coolRes = "admitted"]]
        /\ UNCHANGED << now, chat_admins, status, dbConnected, storeVars, rateVars, opVars >>

\* ---------------------------------------------------------- admin_required
\* ChatMember.ADMINISTRATOR, ChatMember.OWNER (utils.py:224)
IsAdminStatus(s) == s \in {"administrator", "creator"}

\* get_chat_administrators: the chat's administrators and owner.
ChatAdministrators(chat) == {u \in Users : IsAdminStatus(status[chat][u])}

\* utils.py:205, 216
IsGroup(chat) == ChatType(chat) \in {"group", "supergroup"}

\* Whether the actor is a global admin or an administrator of the chat now.
IsAuthorizedActor(u, chat) ==
    u \in ADMIN_USER_IDS \/ (IsGroup(chat) /\ IsAdminStatus(status[chat][u]))

\* utils.py:213, 233, 235: the gate calls the wrapped function.
Authorized(task) == [CallFunc(task) EXCEPT !.authRes = "authorized"]

\* utils.py:238-246: the insult, then `return None`.
Unauthorized(task) == [Reject(task, "Unauthorized") EXCEPT !.authRes = "rejected"]

\* Variant: an actor whose lookup went unanswered is let through.
LookupFailedOpen(task) == Authorized([task EXCEPT !.apiFailed = TRUE])

\* utils.py:230-233: TelegramError or any other exception of the lookup is
\* logged, and the code falls through to the insult at 238-246.
LookupFailed(task) == Unauthorized([task EXCEPT !.apiFailed = TRUE])

\* utils.py:196-246, up to the first platform answer.  api_ok is whether
\* get_chat_member answered (TRUE) or raised TelegramError (FALSE).
AdminGate(t, api_ok) ==
    LET u == tasks[t].user
        c == tasks[t].chat
        task == [tasks[t] EXCEPT !.authTruth = IsAuthorizedActor(u, c)]
        g == CurGate(task)
    IN  /\ task.pc = "gate"
        /\ g.kind = "admin_required"
        /\ tasks' = [tasks EXCEPT ![t] =
              IF IsGlobalAdmin(u)
              THEN \* 203-213
                   IF g.fetch /\ IsGroup(c) /\ ~chat_admins[c].has
                   THEN [task EXCEPT !.pc = "fetch_global"]
                   ELSE Authorized(task)
              ELSE IF IsGroup(c)
              THEN IF ~chat_admins[c].has \/ ~g.fetch
                   THEN \* 221-233: ask the platform
                        IF ~api_ok
                        THEN LookupFailed(task)
                        ELSE IF IsAdminStatus(status[c][u])
                        THEN IF g.fetch /\ ~chat_admins[c].has
                             THEN [task EXCEPT !.pc = "fetch_chat"]
                             ELSE Authorized(task)
                        ELSE Unauthorized(task)
                   ELSE \* 234-235: the cached list decides
                        IF u \in chat_admins[c].ids
                        THEN Authorized(task)
                        ELSE Unauthorized(task)
              ELSE Unauthorized(task)]
        /\ UNCHANGED << now, LAST_COMMAND_USAGE, chat_admins, status, dbConnected,
                        lastAdmit, storeVars, rateVars, opVars >>

\* utils.py:207-213: get_chat_administrators answers for a global admin;
\* on TelegramError the cache is set to the empty list.
AdminFetchGlobal(t, api_ok) ==
    LET task == tasks[t]
    IN  /\ task.pc = "fetch_global"
        /\ chat_admins' = [chat_admins EXCEPT ![task.chat] =
                              IF api_ok
                              THEN [has |-> TRUE, ids |-> ChatAdministrators(task.chat)]
                              ELSE [has |-> TRUE, ids |-> {}]]
        /\ tasks' = [tasks EXCEPT ![t] =
                        Authorized([task EXCEPT !.apiFailed = ~api_ok])]
        /\ UNCHANGED << now, LAST_COMMAND_USAGE, status, dbConnected, lastAdmit,
                        storeVars, rateVars, opVars >>

\* utils.py:226-233: get_chat_administrators answers for a chat admin; a
\* TelegramError is caught at 230 and the invocation ends as unauthorized.
AdminFetchChat(t, api_ok) ==
    LET task == tasks[t]
    IN  /\ task.pc = "fetch_chat"
        /\ IF api_ok
           THEN /\ chat_admins' = [chat_admins EXCEPT ![task.chat] =
                                     [has |-> TRUE, ids |-> ChatAdministrators(task.chat)]]
                /\ tasks' = [tasks EXCEPT ![t] = Authorized(task)]
           ELSE /\ tasks' = [tasks EXCEPT ![t] = LookupFailed(task)]
                /\ UNCHANGED chat_admins
        /\ UNCHANGED << now, LAST_COMMAND_USAGE, status, dbConnected, lastAdmit,
                        storeVars, rateVars, opVars >>

\* ----------------------------------------------------------- error_handler
\* utils.py:158-187: no admission decision; the wrapped handler is called.
ErrorHandlerGate(t) ==
    LET task == tasks[t]
    IN  /\ task.pc = "gate"
        /\ CurGate(task).kind = "error_handler"
        /\ tasks' = [tasks EXCEPT ![t] = CallFunc(task)]
        /\ UNCHANGED << now, LAST_COMMAND_USAGE, chat_admins, status, dbConnected,
                        lastAdmit, storeVars, rateVars, opVars >>

\* ------------------------------------------------------------ handler body
\* The body ends: the handler ran, whatever became of it.
Ran(task, outcome) ==
    [task EXCEPT !.pc = "done", !.ran = TRUE, !.outcome = outcome,
                 !.result = IF @ = "none" THEN "Allowed" ELSE @]

\* The bodies of help_nukem (handlers.py:171-208) and mention_all
\* (handlers.py:216-260): messages only, no state of the model.
RunHandler(t) ==
    LET task == tasks[t]
    IN  /\ task.pc = "body"
        /\ task.cmd \in {"help_nukem", "mention_all"}
        /\ tasks' = [tasks EXCEPT ![t] = Ran(task, "replied")]
        /\ UNCHANGED << now, LAST_COMMAND_USAGE, chat_admins, status, dbConnected,
                        lastAdmit, storeVars, rateVars, opVars >>

\* A notice goes out to the chat.
Notice(task) == [task EXCEPT !.notices = @ + 1]

\* utils.py:164-186: error_handler caught an exception of the body; its notice
\* goes out `if update and update.message`.
ErrorNotice(task) == IF task.hasMessage THEN Notice(task) ELSE task

\* ------------------------------------------------------------ warn_user
\* handlers.py:975-1091.  Without a Database the body answers "Database not
\* connected" (983-986).  With one, _get_target_user_info raises TypeError on
\* each of its paths: db.get_user(target_user_id) at 119 and 144 passes one
\* argument to Database.get_user(self, chat_id, user_id) (db.py:128), and 127
\* unpacks the None that get_user_id_from_username_or_reply returns
\* (utils.py:388).  The call sits outside the body's try: error_handler
\* (utils.py:176-186) sends its notice.  db.add_warning at 1057 is not reached.
WarnBody(t) ==
    LET task == tasks[t]
    IN  /\ task.pc = "body"
        /\ task.cmd = "warn"
        /\ tasks' = [tasks EXCEPT ![t] =
              IF ~dbConnected
              THEN Ran(Notice(task), "db_not_connected")
              ELSE Ran(ErrorNotice(task), "error")]
        /\ UNCHANGED << now, LAST_COMMAND_USAGE, chat_admins, status, dbConnected,
                        lastAdmit, storeVars, rateVars, opVars >>

\* ------------------------------------------------------------ unwarn_user
\* The warnings collection after unwarn_user popped the pair's last document.
WarningsAfterUnwarnPopped(ws, chat_id, user_id) ==
    LET own == {i \in 1..Len(ws) : ws[i].chat_id = chat_id /\ ws[i].user_id = user_id}
        last == CHOOSE i \in own : \A j \in own : j <= i
    IN  IF own = {} THEN ws
        ELSE [i \in 1..(Len(ws) - 1) |-> IF i < last THEN ws[i] ELSE ws[i + 1]]

\* handlers.py:1105-1132: the warnings collection after unwarn_user.  No
\* statement of the body that is reached writes to it: 1105-1108 returns,
\* 1110 raises, and Database has no remove_last_warning (1131).
WarningsAfterUnwarn(ws, chat_id, user_id) == ws

\* handlers.py:1094-1149.  Without a Database: "Database not connected"
\* (1105-1108).  With one, _get_target_user_info (1110) raises TypeError as in
\* warn_user and error_handler sends its notice.
UnwarnBody(t, reply_to) ==
    LET task == [tasks[t] EXCEPT !.replyTo = reply_to]
    IN  /\ tasks[t].pc = "body"
        /\ tasks[t].cmd = "unwarn"
        /\ tasks[t].hasMessage \/ reply_to = 0
        /\ tasks' = [tasks EXCEPT ![t] =
              IF ~dbConnected
              THEN Ran(Notice(task), "db_not_connected")
              ELSE Ran(ErrorNotice(task), "error")]
        /\ warnings' = WarningsAfterUnwarn(warnings, task.chat, reply_to)
        /\ UNCHANGED << now, LAST_COMMAND_USAGE, chat_admins, status, dbConnected,
                        lastAdmit, mutes, restricted, rateVars, opVars >>

\* ----------------------------------- give_karma_command, remove_karma_command
\* handlers.py:855-913 and 916-967.  reply_to: the author of the replied-to
\* message, 0 without a reply.  Without a Database: "Database not connected"
\* (866-869, 927-930).  With one, _get_target_user_info (875, 932) raises
\* TypeError as in warn_user, so neither the check for a target that is the
\* actor (884-887, 940-943) nor db.update_karma (902, 956) is reached;
\* error_handler sends its notice.
KarmaBody(t, reply_to) ==
    LET task == [tasks[t] EXCEPT !.replyTo = reply_to]
    IN  /\ tasks[t].pc = "body"
        /\ tasks[t].cmd \in KarmaCommands
        /\ tasks[t].hasMessage \/ reply_to = 0
        /\ tasks' = [tasks EXCEPT ![t] =
              IF ~dbConnected
              THEN Ran(Notice(task), "db_not_connected")
              ELSE Ran(ErrorNotice(task), "error")]
        /\ UNCHANGED << now, LAST_COMMAND_USAGE, chat_admins, status, dbConnected,
                        lastAdmit, storeVars, rateVars, opVars >>

\* --------------------------------------------------- unmute_user_command
\* handlers.py:1328-1391.  has_args: context.args is not empty.  reply_to:
\* the author of the replied-to message, 0 without a reply.  api_ok: whether
\* restrict_chat_member answered.  The target resolves only from a reply and
\* only without a Database (handlers.py:115-120); the other paths raise
\* TypeError as in warn_user.  The body writes nothing to the store.
UnmuteBody(t, has_args, reply_to, api_ok) ==
    LET task == tasks[t]
        c == task.chat
    IN  /\ task.pc = "body"
        /\ task.cmd = "unmute"
        /\ task.hasMessage \/ reply_to = 0
        /\ IF ~has_args
           THEN \* 1335-1338
                /\ tasks' = [tasks EXCEPT ![t] = Ran(Notice(task), "no_target")]
                /\ UNCHANGED restricted
           ELSE IF reply_to = 0 \/ dbConnected
           THEN \* 1340: TypeError inside _get_target_user_info
                /\ tasks' = [tasks EXCEPT ![t] = Ran(ErrorNotice(task), "error")]
                /\ UNCHANGED restricted
           ELSE IF api_ok
           THEN \* 1366-1374: every permission granted again
                /\ restricted' = [restricted EXCEPT ![c] = @ \ {reply_to}]
                /\ tasks' = [tasks EXCEPT ![t] =
                       Ran(Notice([task EXCEPT !.target = reply_to]), "unmuted")]
           ELSE \* 1380-1391
                /\ tasks' = [tasks EXCEPT ![t] =
                       Ran(Notice([task EXCEPT !.target = reply_to]), "telegram_error")]
                /\ UNCHANGED restricted
        /\ UNCHANGED << now, LAST_COMMAND_USAGE, chat_admins, status, dbConnected,
                        lastAdmit, warnings, mutes, rateVars, opVars >>

\* ------------------------------------------- chat_member_update_handler
\* handlers.py:1577-1649: the platform reports that user u of chat c now has
\* new_status.  Without a Database the handler returns at 1597.  With one,
\* db.get_user(user.id) at 1608 raises TypeError (one argument for
\* Database.get_user(self, chat_id, user_id), db.py:128), which 1648 catches:
\* the cache update at 1625-1637 is not reached.  Either way
\* chat_data['chat_admins'] stays as it was.
ChatMemberUpdate(c, u, new_status) ==
    /\ IsGroup(c)
    /\ status[c][u] # new_status
    /\ status' = [status EXCEPT ![c][u] = new_status]
    /\ chat_admins' = IF ~dbConnected THEN chat_admins ELSE chat_admins
    /\ UNCHANGED << now, LAST_COMMAND_USAGE, dbConnected, tasks, lastAdmit,
                    storeVars, rateVars, opVars >>

\* ---------------------------------------------------------------- Database
\* db.py:250-257: the document add_warning inserts.
WarningDoc(chat_id, user_id, admin_id, expiry) ==
    [chat_id |-> chat_id, user_id |-> user_id, admin_id |-> admin_id, expiry |-> expiry]

\* db.py:245-260: Database.add_warning.  One insert; nothing else is written.
AddWarning(chat_id, user_id, admin_id, expiry) ==
    /\ Len(warnings) < MaxWarnings
    /\ warnings' = Append(warnings, WarningDoc(chat_id, user_id, admin_id, expiry))
    /\ UNCHANGED << now, gateVars, mutes, restricted, rateVars, opVars >>

\* db.py:283-291: the document add_mute inserts.
MuteDoc(chat_id, user_id, until, admin_id, timestamp) ==
    [chat_id |-> chat_id, user_id |-> user_id, until |-> until, admin_id |-> admin_id,
     timestamp |-> timestamp]

\* db.py:278-294: Database.add_mute.
AddMute(chat_id, user_id, until, admin_id) ==
    /\ Len(mutes) < MaxMutes
    /\ mutes' = Append(mutes, MuteDoc(chat_id, user_id, until, admin_id, now))
    /\ UNCHANGED << now, gateVars, warnings, restricted, rateVars, opVars >>

\* The filter with $gte in the place of $gt.
ActiveWarningsInclusive(chat_id, user_id) ==
    SelectSeq(warnings, LAMBDA w :
        /\ w.user_id = user_id
        /\ w.chat_id = chat_id
        /\ (w.expiry = NoTime \/ w.expiry >= now))

\* db.py:309-316: the filter of get_active_mutes(chat_id):
\* {"expiry": {"$gt": utcnow()}, "chat_id": chat_id}.  A document without an
\* expiry field does not match $gt.
ActiveMutes(chat_id) ==
    SelectSeq(mutes, LAMBDA m :
        /\ "expiry" \in DOMAIN m
        /\ m.expiry # NoTime
        /\ m.expiry > UtcNow
        /\ m.chat_id = chat_id)

\* db.py:266-272: the filter of get_warnings(active_only=True).
ActiveWarnings(chat_id, user_id) ==
    SelectSeq(warnings, LAMBDA w :
        /\ w.user_id = user_id
        /\ w.chat_id = chat_id
        /\ (w.expiry = NoTime \/ w.expiry > now))

\* db.py:22.
MAX_RETRIES == 3

\* Methods under @backoff.on_exception(backoff.expo, PyMongoError, max_tries=...)
\* (db.py:88, 245, 262, 296, 502); update_karma (db.py:194) has no decorator.
RetryWrapped == {"add_or_update_user", "add_warning", "get_warnings",
                 "get_active_mutes", "cleanup_expired_items"}
MaxTries(name) == IF name \in RetryWrapped THEN MAX_RETRIES ELSE 1

\* The method's except clause left out: the store's exception as it is.
BodyRaisesRaw(store_exc) == store_exc

\* db.py:105-107, 220-222, 258-260, 522-524: `except PyMongoError as e: raise
\* DatabaseError(...)`: what leaves the method body when the store raised.
BodyRaises(store_exc) ==
    IF store_exc = "PyMongoError" THEN "DatabaseError" ELSE store_exc

\* backoff.on_exception(backoff.expo, PyMongoError, max_tries): the body is
\* run again when it raised a PyMongoError and tries are left.  DatabaseError
\* (db.py:25) derives from Exception, not from PyMongoError.
BackoffRetries(exc, attempts, max_tries) ==
    exc = "PyMongoError" /\ attempts < max_tries

\* The karma document after an update that overwrites with the value the
\* caller saw.
IncKarmaFromSeen(doc, seen, change) ==
    KarmaDoc((IF seen.has THEN seen.karma ELSE 0) + change)

\* db.py:207-215: find_one_and_update with $inc and upsert: one command of the
\* store, applied to the document as the store holds it.
IncKarma(doc, seen, change) ==
    KarmaDoc((IF doc.has THEN doc.karma ELSE 0) + change)

\* db.py:514, 517: delete_many({"expiry": {"$lt": now}}): the documents left.
\* A null or missing expiry does not match $lt; the documents add_mute writes
\* (db.py:283-291) have no expiry field.
NotExpired(docs, current_time) ==
    SelectSeq(docs, LAMBDA d :
        ~("expiry" \in DOMAIN d /\ d.expiry # NoTime /\ d.expiry < current_time))

\* A coroutine calls a Database method.
CallOp(o, name, key, change, expiry, fails) ==
    /\ ops[o].pc = "idle"
    /\ \A p \in OpIds : p < o => ops[p].pc # "idle"
    /\ ops' = [ops EXCEPT ![o] =
                  [IdleOp EXCEPT !.pc = "call", !.name = name, !.key = key,
                                 !.change = change, !.expiry = expiry, !.fails = fails,
                                 !.planned = fails, !.seen = karma[key]]]
    /\ UNCHANGED << now, gateVars, storeVars, rateVars, karma, karma0, userDocs, utc_offset >>

\* The method body runs once: the await of the store command, and what the
\* except clause and the decorator make of its outcome.
AttemptOp(o) ==
    LET op == ops[o]
        n == op.attempts + 1
        exc == BodyRaises("PyMongoError")
    IN  /\ op.pc = "call"
        /\ IF op.fails > 0
           THEN /\ ops' = [ops EXCEPT ![o] =
                      IF BackoffRetries(exc, n, MaxTries(op.name))
                      THEN [op EXCEPT !.attempts = n, !.fails = @ - 1]
                      ELSE [op EXCEPT !.attempts = n, !.fails = @ - 1, !.pc = "done",
                                      !.result = exc, !.cause = n]]
                /\ UNCHANGED << karma, userDocs, warnings, mutes >>
           ELSE /\ karma' = IF op.name = "update_karma"
                            THEN [karma EXCEPT ![op.key] = IncKarma(@, op.seen, op.change)]
                            ELSE karma
                /\ userDocs' = IF op.name = "add_or_update_user"
                               THEN [userDocs EXCEPT ![op.key] = [has |-> TRUE, status |-> "member"]]
                               ELSE userDocs
                /\ warnings' =
                      CASE op.name = "add_warning" ->
                             Append(warnings, WarningDoc(op.key[1], op.key[2], 1, op.expiry))
                        [] op.name = "cleanup_expired_items" -> NotExpired(warnings, UtcNow)
                        [] OTHER -> warnings
                /\ mutes' = IF op.name = "cleanup_expired_items"
                            THEN NotExpired(mutes, UtcNow)
                            ELSE mutes
                /\ ops' = [ops EXCEPT ![o] =
                      [op EXCEPT !.attempts = n, !.pc = "done", !.result = "ok",
                                 !.applied = @ + 1,
                                 !.ret = IF op.name = "update_karma"
                                         THEN karma'[op.key].karma ELSE 0,
                                 !.docs =
                                     CASE op.name = "get_warnings" ->
                                            ActiveWarnings(op.key[1], op.key[2])
                                       [] op.name = "get_active_mutes" ->
                                            ActiveMutes(op.key[1])
                                       [] OTHER -> << >>]]
        /\ UNCHANGED << now, gateVars, restricted, rateVars, karma0, utc_offset >>

\* ------------------------------------------------------------ RateLimiter
\* Variant: a timestamp exactly one period old is kept.
PruneInclusive(ts, cutoff_time) == SelectSeq(ts, LAMBDA x : x >= cutoff_time)

\* utils.py:65-67: [ts for ts in self._cache[key] if ts > cutoff_time]
Prune(ts, cutoff_time) == SelectSeq(ts, LAMBDA x : x > cutoff_time)

\* Variant: the limit is reached one request late.
IsRateLimitedLate(win, current_time) ==
    Len(Prune(win.ts, current_time - RATE_LIMIT_PERIOD)) > MAX_REQUESTS

\* utils.py:63-70: the answer of is_rate_limited for a window at current_time.
IsRateLimited(win, current_time) ==
    Len(Prune(win.ts, current_time - RATE_LIMIT_PERIOD)) >= MAX_REQUESTS

\* Variant: the timestamp is appended whatever the window holds.
WindowAfterUnchecked(win, current_time) ==
    [has |-> TRUE,
     ts |-> Append(Prune(win.ts, current_time - RATE_LIMIT_PERIOD), current_time)]

\* utils.py:63-74: the window is_rate_limited leaves behind.  Reading
\* self._cache[key] creates the key; the pruned list is stored either way.
WindowAfter(win, current_time) ==
    LET timestamps == Prune(win.ts, current_time - RATE_LIMIT_PERIOD)
    IN  [has |-> TRUE,
         ts |-> IF Len(timestamps) >= MAX_REQUESTS
                THEN timestamps
                ELSE Append(timestamps, current_time)]

\* Keep the last k entries of a history.
LastK(s, k) == IF Len(s) > k THEN SubSeq(s, Len(s) - k + 1, Len(s)) ELSE s

\* Admissions of a history that lie in the period ending at current_time.
InPeriod(admits, current_time) ==
    Cardinality({i \in DOMAIN admits : admits[i] > current_time - RATE_LIMIT_PERIOD})

\* utils.py:92-116: check_rate_limit's wrapper around a handler, called for
\* an event of user u in chat c.  is_rate_limited holds no await: one step.
CheckRateLimit(u, c) ==
    LET bypass == IsGlobalAdmin(u)
        key == Key(u, ChatId(c, u))
        limited == ~bypass /\ IsRateLimited(cache[key], now)
        prior == InPeriod(rateAdmits[u], now)
    IN  /\ rateCalls < MaxRateCalls
        /\ rateCalls' = rateCalls + 1
        /\ cache' = IF bypass THEN cache
                    ELSE [cache EXCEPT ![key] = WindowAfter(@, now)]
        /\ rateLast' = [user |-> u, t |-> now, limited |-> limited, prior |-> prior]
        /\ rateAdmits' = IF limited THEN rateAdmits
                         ELSE [rateAdmits EXCEPT ![u] =
                                  LastK(Append(@, now), MAX_REQUESTS + 1)]
        /\ rateFrom' = IF limited \/ bypass THEN rateFrom
                       ELSE [rateFrom EXCEPT ![u] = IF prior = 0 THEN {c} ELSE @ \cup {c}]
        /\ cacheNoCleanup' = IF bypass THEN cacheNoCleanup
                             ELSE [cacheNoCleanup EXCEPT ![key] = WindowAfter(@, now)]
        /\ UNCHANGED lastCleanup
        /\ UNCHANGED << now, gateVars, storeVars, opVars >>

\* Variant: a key is deleted as soon as one of its timestamps has expired.
CleanedWhole(win, current_time) ==
    IF Prune(win.ts, current_time - RATE_LIMIT_PERIOD) = win.ts THEN win ELSE NoWindow

\* utils.py:80-85: what cleanup makes of one key: the timestamps newer than
\* the cutoff, or no key at all when none is.
Cleaned(win, current_time) ==
    LET valid_timestamps == Prune(win.ts, current_time - RATE_LIMIT_PERIOD)
    IN  IF ~win.has THEN win
        ELSE IF valid_timestamps # << >> THEN [has |-> TRUE, ts |-> valid_timestamps]
        ELSE NoWindow

\* utils.py:76-85: RateLimiter.cleanup; no await, one step.
RateLimiterCleanup ==
    /\ cache' = [k \in Keys |-> Cleaned(cache[k], now)]
    /\ lastCleanup' = [changed |-> {k \in Keys : cache'[k] # cache[k]},
                       calls |-> rateCalls]
    /\ UNCHANGED << now, gateVars, storeVars, opVars, rateCalls, rateAdmits, rateLast,
                    rateFrom, cacheNoCleanup >>

\* ---------------------------------------------------------- specifications
NextGates ==
    \/ \E t \in TaskIds, u \in Users, c \in Chats, cmd \in Commands : Dispatch(t, u, c, cmd)
    \/ \E t \in TaskIds : ChatTypeGate(t)
    \/ \E t \in TaskIds : CooldownGate(t)
    \/ \E t \in TaskIds, api_ok \in BOOLEAN : AdminGate(t, api_ok)
    \/ \E t \in TaskIds : ErrorHandlerGate(t)
    \/ \E t \in TaskIds : RunHandler(t)

Next == Tick \/ NextGates

\* The command pipeline of handlers.py: gates, then the handler.
Spec == Init /\ [][Next]_vars

NextRate == Tick \/ \E u \in Users : CheckRateLimit(u, "grp")

\* The rate limiter on its own, for commands sent to the group; no handler
\* of handlers.py is decorated with it.
SpecRate == Init /\ [][NextRate]_vars

NextRateChats == Tick \/ \E u \in Users \ ADMIN_USER_IDS, c \in Chats : CheckRateLimit(u, c)

NextCleanup ==
    \/ Tick
    \/ \E u \in Users \ ADMIN_USER_IDS : CheckRateLimit(u, "grp")
    \/ RateLimiterCleanup

\* The rate limiter with its cleanup run at any moment.
SpecCleanup == Init /\ [][NextCleanup]_vars

\* The rate limiter for members who send commands to the group and in
\* private.
SpecRateChats == Init /\ [][NextRateChats]_vars

\* No invocation was dispatched yet.
GatesUntouched == \A t \in TaskIds : tasks[t].pc = "idle"

\* Both gates.  They share the clock and ADMIN_USER_IDS and nothing else,
\* so a run exercises the one or the other.
NextAdmission ==
    \/ Tick
    \/ (rateCalls = 0 /\ NextGates)
    \/ (GatesUntouched /\ \E u \in Users : CheckRateLimit(u, "grp"))

SpecAdmission == Init /\ [][NextAdmission]_vars

\* The authorization gate under role changes: help_nukem asks the platform
\* each time, unmute_user_command keeps the chat's admin list.
NextAuth ==
    \/ Elapse(Horizon)
    \/ \E u \in Users, c \in Chats, cmd \in AuthCommands : Dispatch(1, u, c, cmd)
    \/ ChatTypeGate(1)
    \/ CooldownGate(1)
    \/ \E api_ok \in BOOLEAN : AdminGate(1, api_ok)
    \/ \E api_ok \in BOOLEAN : AdminFetchGlobal(1, api_ok)
    \/ \E api_ok \in BOOLEAN : AdminFetchChat(1, api_ok)
    \/ ErrorHandlerGate(1)
    \/ RunHandler(1)
    \/ \E has_args \in BOOLEAN, reply_to \in {0} \cup Targets, api_ok \in BOOLEAN :
          UnmuteBody(1, has_args, reply_to, api_ok)
    \/ \E u \in Users \ ADMIN_USER_IDS, new_status \in {"member", "administrator"} :
          ChatMemberUpdate("grp", u, new_status)

SpecAuth == InitDb /\ [][NextAuth]_vars

\* The authorization gate while user 2 stays the administrator of the group
\* it is from the start: the role changes reported are those of user 3.
NextStanding ==
    \/ Elapse(Horizon)
    \/ \E u \in Users, c \in Chats, cmd \in AuthCommands : Dispatch(1, u, c, cmd)
    \/ ChatTypeGate(1)
    \/ CooldownGate(1)
    \/ \E api_ok \in BOOLEAN : AdminGate(1, api_ok)
    \/ \E api_ok \in BOOLEAN : AdminFetchGlobal(1, api_ok)
    \/ \E api_ok \in BOOLEAN : AdminFetchChat(1, api_ok)
    \/ ErrorHandlerGate(1)
    \/ RunHandler(1)
    \/ \E has_args \in BOOLEAN, reply_to \in {0} \cup Targets, api_ok \in BOOLEAN :
          UnmuteBody(1, has_args, reply_to, api_ok)
    \/ \E new_status \in {"member", "administrator"} : ChatMemberUpdate("grp", 3, new_status)

SpecStanding == InitDb /\ [][NextStanding]_vars

\* Both gates in one run: a global admin and a chat admin send
\* mention_all to either chat, one invocation at a time, and call a
\* rate-limited handler.
NextBypass ==
    \/ Elapse(Horizon)
    \/ \E u \in {1, 2}, c \in Chats, cmd \in Commands : Dispatch(1, u, c, cmd)
    \/ ChatTypeGate(1)
    \/ CooldownGate(1)
    \/ \E api_ok \in BOOLEAN : AdminGate(1, api_ok)
    \/ ErrorHandlerGate(1)
    \/ RunHandler(1)
    \/ \E u \in {1, 2}, c \in Chats : CheckRateLimit(u, c)

SpecBypass == Init /\ [][NextBypass]_vars

\* The moderation store and the moderation commands that reach their
\* body, one invocation at a time, issued by an admin.
NextMod ==
    \/ Tick
    \/ \E u \in ADMIN_USER_IDS, c \in Chats, cmd \in ModCommands : Dispatch(1, u, c, cmd)
    \/ ChatTypeGate(1)
    \/ CooldownGate(1)
    \/ \E api_ok \in BOOLEAN : AdminGate(1, api_ok)
    \/ \E api_ok \in BOOLEAN : AdminFetchGlobal(1, api_ok)
    \/ ErrorHandlerGate(1)
    \/ WarnBody(1)
    \/ \E reply_to \in {0} \cup Targets : UnwarnBody(1, reply_to)
    \/ \E has_args \in BOOLEAN, reply_to \in {0} \cup Targets, api_ok \in BOOLEAN :
          UnmuteBody(1, has_args, reply_to, api_ok)
    \/ \E u \in Targets, expiry \in {NoTime, StartTime + 2} : AddWarning("grp", u, 1, expiry)
    \/ \E u \in Targets, until \in {NoTime, StartTime + 2, StartTime + 86400} : AddMute("grp", u, until, 1)

SpecMod == InitDb /\ [][NextMod]_vars

\* unwarn_user on its own, issued by an admin while warnings are stored and
\* expire.
NextUnwarn ==
    \/ Tick
    \/ \E c \in Chats : Dispatch(1, 1, c, "unwarn")
    \/ ChatTypeGate(1)
    \/ CooldownGate(1)
    \/ \E api_ok \in BOOLEAN : AdminGate(1, api_ok)
    \/ \E api_ok \in BOOLEAN : AdminFetchGlobal(1, api_ok)
    \/ ErrorHandlerGate(1)
    \/ \E reply_to \in {0} \cup Targets : UnwarnBody(1, reply_to)
    \/ \E u \in Targets, expiry \in {NoTime, StartTime + 2} : AddWarning("grp", u, 1, expiry)

SpecUnwarn == InitDb /\ [][NextUnwarn]_vars

\* The karma commands, one invocation at a time, replying to a message of
\* the actor or of another member.
NextKarmaCmd ==
    \/ Elapse(Horizon)
    \/ \E u \in Users, c \in Chats, cmd \in KarmaCommands : Dispatch(1, u, c, cmd)
    \/ ChatTypeGate(1)
    \/ CooldownGate(1)
    \/ \E api_ok \in BOOLEAN : AdminGate(1, api_ok)
    \/ \E api_ok \in BOOLEAN : AdminFetchGlobal(1, api_ok)
    \/ \E api_ok \in BOOLEAN : AdminFetchChat(1, api_ok)
    \/ ErrorHandlerGate(1)
    \/ \E reply_to \in {0, tasks[1].user} \cup Targets : KarmaBody(1, reply_to)

SpecKarmaCmd == InitDb /\ [][NextKarmaCmd]_vars

\* The notices of rejected and failed commands: help_nukem and warn_user,
\* one invocation at a time, sent in a message or in an edited message.
NextNotice ==
    \/ Elapse(Horizon)
    \/ \E u \in Users, c \in Chats, cmd \in {"help_nukem", "warn"} : Dispatch(1, u, c, cmd)
    \/ \E u \in Users, c \in Chats, cmd \in {"help_nukem", "warn"} :
          DispatchNoMessage(1, u, c, cmd)
    \/ ChatTypeGate(1)
    \/ CooldownGate(1)
    \/ \E api_ok \in BOOLEAN : AdminGate(1, api_ok)
    \/ \E api_ok \in BOOLEAN : AdminFetchGlobal(1, api_ok)
    \/ \E api_ok \in BOOLEAN : AdminFetchChat(1, api_ok)
    \/ ErrorHandlerGate(1)
    \/ RunHandler(1)
    \/ WarnBody(1)

SpecNotice == InitDb /\ [][NextNotice]_vars

\* Coroutines updating karma through Database.update_karma; the store may
\* refuse a command once.
NextKarma ==
    \/ \E o \in OpIds, key \in KarmaKeys, change \in {1, -1}, fails \in {0, 1} :
          CallOp(o, "update_karma", key, change, NoTime, fails)
    \/ \E o \in OpIds : AttemptOp(o)

SpecKarma == InitOps /\ [][NextKarma]_vars

\* The warnings collection: time passes, warnings are written, queried and
\* cleaned up; the store answers each command.
NextWarnings ==
    \/ Tick
    \/ \E o \in OpIds, key \in KarmaKeys, expiry \in {NoTime, StartTime + 1} :
          CallOp(o, "add_warning", key, 0, expiry, 0)
    \/ \E o \in OpIds, key \in KarmaKeys : CallOp(o, "get_warnings", key, 0, NoTime, 0)
    \/ \E o \in OpIds : CallOp(o, "cleanup_expired_items", << "grp", 3 >>, 0, NoTime, 0)
    \/ \E o \in OpIds : AttemptOp(o)

SpecWarnings == InitOps /\ [][NextWarnings]_vars

\* The same on a host whose zone need not be UTC.
SpecZones == InitZones /\ [][NextWarnings]_vars

\* Calls of retry-wrapped methods against a store that answers a call with
\* up to MaxFails transient errors before it would accept the command.
NextRetry ==
    \/ \E o \in 1..MaxRetryOps, fails \in 0..MaxFails :
          CallOp(o, "add_or_update_user", << "grp", 2 >>, 0, NoTime, fails)
    \/ \E o \in 1..MaxRetryOps, fails \in 0..MaxFails :
          CallOp(o, "add_warning", << "grp", 3 >>, 0, NoTime, fails)
    \/ \E o \in 1..MaxRetryOps, fails \in 0..MaxFails :
          CallOp(o, "cleanup_expired_items", << "grp", 3 >>, 0, NoTime, fails)
    \/ \E o \in 1..MaxRetryOps : AttemptOp(o)

SpecRetry == InitOps /\ [][NextRetry]_vars

\* The mutes collection: time passes, a mute is written by add_mute and
\* the active mutes of the chat are queried.
NextMutes ==
    \/ Tick
    \/ \E u \in Targets, until \in {NoTime, StartTime + 2, StartTime + 86400} :
          AddMute("grp", u, until, 1)
    \/ \E o \in OpIds : CallOp(o, "get_active_mutes", << "grp", 3 >>, 0, NoTime, 0)
    \/ \E o \in OpIds : AttemptOp(o)

SpecMutes == InitOps /\ [][NextMutes]_vars

\* The same, with every call that was made running on: the event loop
\* resumes a coroutine whose await is answered.
SpecRetryFair == SpecRetry /\ \A o \in OpIds : WF_vars(AttemptOp(o))

\* ------------------------------------------------------------------ claims
\* A step in which the cooldown gate decided for task t.
CooldownDecides(t) ==
    /\ tasks[t].pc = "gate"
    /\ CurGate(tasks[t]).kind = "command_cooldown"
    /\ tasks'[t].coolRes # "none"

\* The seconds the cooldown gate of a task's command applies.
CooldownOf(task) == CooldownSeconds(Stack(task.cmd)[IF Stack(task.cmd)[1].kind = "command_cooldown" THEN 1 ELSE 2].name, << >>)

\* The name under which a task's command keeps its cooldown.
CooldownNameOf(task) == Stack(task.cmd)[IF Stack(task.cmd)[1].kind = "command_cooldown" THEN 1 ELSE 2].name

\* Two recorded invocations of one command by one non-admin user whose
\* cooldown decisions lie less than the cooldown apart.
ClosePair(t1, t2) ==
    /\ t1 # t2
    /\ tasks[t1].coolRes \in {"admitted", "rejected"}
    /\ tasks[t2].coolRes \in {"admitted", "rejected"}
    /\ tasks[t1].user = tasks[t2].user
    /\ tasks[t1].cmd = tasks[t2].cmd
    /\ tasks[t1].user \notin ADMIN_USER_IDS
    /\ tasks[t1].coolAt - tasks[t2].coolAt < CooldownOf(tasks[t1])
    /\ tasks[t2].coolAt - tasks[t1].coolAt < CooldownOf(tasks[t1])

\* C1 as stated: of any two invocations of a command by a non-admin user
\* less than the cooldown apart, exactly one is admitted and the other is
\* rejected as OnCooldown.
C1_ExactlyOneAdmitted ==
    \A t1, t2 \in TaskIds :
        ClosePair(t1, t2) =>
            (tasks[t1].coolRes = "admitted") # (tasks[t2].coolRes = "admitted")

\* C1 amended: of any two invocations of a command by a non-admin user less
\* than the cooldown apart, at most one is admitted: an invocation decided
\* less than the cooldown after the last admission is rejected as
\* OnCooldown, and an admitted one comes no sooner than the cooldown after
\* the last admission.
C1_AtMostOneAdmitted ==
    [][\A t \in TaskIds :
          (CooldownDecides(t) /\ tasks[t].user \notin ADMIN_USER_IDS) =>
             LET name == CurGate(tasks[t]).name
                 prev == lastAdmit[name][tasks[t].user]
                 close == prev # NoTime /\ now - prev < CooldownSeconds(name, << >>)
             IN  /\ close => (tasks'[t].coolRes = "rejected" /\ tasks'[t].result = "OnCooldown")
                 /\ tasks'[t].coolRes = "admitted" => ~close]_vars

\* C1 witness: a non-admin invocation was rejected as OnCooldown less than
\* the cooldown after an admission of the same command and user.
C1_Witness ==
    \E t \in TaskIds :
        /\ tasks[t].coolRes = "rejected"
        /\ tasks[t].user \notin ADMIN_USER_IDS
        /\ lastAdmit[CooldownNameOf(tasks[t])][tasks[t].user] # NoTime
        /\ tasks[t].coolAt - lastAdmit[CooldownNameOf(tasks[t])][tasks[t].user]
              < CooldownOf(tasks[t])

\* C2: for a non-admin user the rate limiter admits at most MAX_REQUESTS
\* calls within any rate-limit period, and a call that finds MAX_REQUESTS
\* admissions in the period ending at it is rejected.
C2_AtMostNPerPeriod ==
    \A u \in Users \ ADMIN_USER_IDS :
        /\ Len(rateAdmits[u]) = MAX_REQUESTS + 1 =>
              rateAdmits[u][MAX_REQUESTS + 1] - rateAdmits[u][1] >= RATE_LIMIT_PERIOD
        /\ (rateLast.user = u /\ rateLast.prior >= MAX_REQUESTS) => rateLast.limited

\* C2 witness: a non-admin's call found MAX_REQUESTS admissions in its
\* period and was rejected.
C2_Witness ==
    /\ rateLast.user \in Users \ ADMIN_USER_IDS
    /\ rateLast.prior = MAX_REQUESTS
    /\ rateLast.limited

\* C3: two invocations of one cooldown-guarded command by one non-admin
\* user that are in flight together are never both admitted: the gate's
\* admission writes the usage time in the same step, and no two recorded
\* admissions lie less than the cooldown apart.
C3_NeverBothAdmitted ==
    [][/\ \A t \in TaskIds :
             (CooldownDecides(t) /\ tasks'[t].coolRes = "admitted") =>
                 LAST_COMMAND_USAGE'[CurGate(tasks[t]).name][tasks[t].user] = now
       /\ \A t1, t2 \in TaskIds :
             ClosePair(t1, t2)' =>
                 ~(tasks'[t1].coolRes = "admitted" /\ tasks'[t2].coolRes = "admitted")]_vars

\* C3 witness: while an admitted invocation was still in flight, a second
\* one of the same command and user was decided at the same instant and
\* rejected.
C3_Witness ==
    \E t1, t2 \in TaskIds :
        /\ ClosePair(t1, t2)
        /\ tasks[t1].coolRes = "admitted"
        /\ tasks[t1].pc # "done"
        /\ tasks[t2].coolRes = "rejected"
        /\ tasks[t2].coolAt = tasks[t1].coolAt

\* A step in which the rate-limit gate was called for user u.
RateCallBy(u) == rateCalls' = rateCalls + 1 /\ rateLast'.user = u

\* C4: a call of the rate limiter prunes, checks and appends in one step:
\* a non-admin's call that finds MAX_REQUESTS-1 timestamps in the window is
\* admitted and leaves MAX_REQUESTS, the next call at that instant finds
\* MAX_REQUESTS and is rejected, and the window never holds more than
\* MAX_REQUESTS timestamps.
C4_AtomicWindow ==
    [][\A u \in Users \ ADMIN_USER_IDS :
          RateCallBy(u) =>
             LET w == Len(Prune(cache[u].ts, now - RATE_LIMIT_PERIOD))
             IN  /\ w = MAX_REQUESTS - 1 =>
                       (~rateLast'.limited /\ Len(cache'[u].ts) = MAX_REQUESTS)
                 /\ w = MAX_REQUESTS =>
                       (rateLast'.limited /\ Len(cache'[u].ts) = MAX_REQUESTS)
                 /\ Len(cache'[u].ts) <= MAX_REQUESTS]_vars

\* C4 witness: a call was rejected at the very instant at which the call
\* before it filled the window.
C4_Witness ==
    \E u \in Users \ ADMIN_USER_IDS :
        /\ rateLast.user = u
        /\ rateLast.limited
        /\ Len(cache[u].ts) = MAX_REQUESTS
        /\ cache[u].ts[MAX_REQUESTS] = rateLast.t

\* C5: an invocation of a global admin is never rejected by the cooldown
\* gate nor by the rate-limit gate, however often it comes.
C5_AdminNeverThrottled ==
    /\ \A t \in TaskIds :
          tasks[t].user \in ADMIN_USER_IDS =>
              /\ tasks[t].result \notin {"OnCooldown", "RateLimited"}
              /\ tasks[t].coolRes \in {"none", "bypass"}
    /\ rateLast.user \in ADMIN_USER_IDS => ~rateLast.limited

\* C5 witness: two invocations of one command by a global admin passed the
\* cooldown gate less than the cooldown apart.
C5_Witness ==
    \E t1, t2 \in TaskIds :
        /\ t1 # t2
        /\ tasks[t1].user \in ADMIN_USER_IDS
        /\ tasks[t2].user = tasks[t1].user
        /\ tasks[t1].cmd = tasks[t2].cmd
        /\ tasks[t1].coolRes = "bypass"
        /\ tasks[t2].coolRes = "bypass"
        /\ tasks[t1].coolAt = tasks[t2].coolAt
        /\ tasks[t1].ran /\ tasks[t2].ran

\* C6 as stated: the gates run in the order chat type, authorization,
\* cooldown, rate limit, so an invocation rejected as ChatTypeDenied or
\* Unauthorized has recorded no cooldown timestamp.
C6_RejectedBeforeCooldown ==
    \A t \in TaskIds :
        tasks[t].result \in {"ChatTypeDenied", "Unauthorized"} =>
            tasks[t].coolRes # "admitted"

\* C7: the handler body runs only for an invocation that every gate of its
\* command allowed; a rejected invocation ends without running it.
C7_BodyOnlyWhenAllowed ==
    \A t \in TaskIds :
        /\ tasks[t].ran =>
              (tasks[t].result = "Allowed" /\ tasks[t].idx = Len(Stack(tasks[t].cmd)))
        /\ tasks[t].result \in {"ChatTypeDenied", "Unauthorized", "OnCooldown", "RateLimited"} =>
              (~tasks[t].ran /\ tasks[t].pc = "done")

\* C7 witness: one invocation ran its handler after passing every gate
\* while another was rejected on cooldown and did not run.
C7_Witness ==
    \E t1, t2 \in TaskIds :
        /\ tasks[t1].ran /\ tasks[t1].result = "Allowed"
        /\ tasks[t1].user \notin ADMIN_USER_IDS
        /\ tasks[t2].result = "OnCooldown" /\ ~tasks[t2].ran

\* C8 as stated: an invocation the authorization gate decided, no platform
\* call of which failed, was authorized if and only if its actor was a
\* global admin or an administrator or owner of the chat when the gate was
\* entered.
C8_AuthorizedIffAdmin ==
    \A t \in TaskIds :
        (tasks[t].authRes # "none" /\ ~tasks[t].apiFailed) =>
            (tasks[t].authRes = "authorized" <=> tasks[t].authTruth)

\* A mute document is active: no end, or an end in the future.
MuteActive(m, t) == m.until = NoTime \/ m.until > t

\* The latest mute document of (chat, user) in ms is active at t.
IsActivelyMuted(ms, t, chat_id, user_id) ==
    LET idx == {i \in DOMAIN ms : ms[i].chat_id = chat_id /\ ms[i].user_id = user_id}
    IN  /\ idx # {}
        /\ MuteActive(ms[CHOOSE i \in idx : \A j \in idx : j <= i], t)

\* The warnings of (chat, user) that carry no expiry.
NoExpiryWarnings(chat_id, user_id) ==
    SelectSeq(warnings, LAMBDA w :
        w.chat_id = chat_id /\ w.user_id = user_id /\ w.expiry = NoTime)

\* C9 as stated: once three warnings without expiry are stored for a
\* (chat, user), the user is actively muted by a mute document that is
\* attributed to the system, not to a user, and lasts 24 hours.
C9_ThirdWarningMutes ==
    \A c \in Chats, u \in Users :
        Len(NoExpiryWarnings(c, u)) >= 3 =>
            /\ IsActivelyMuted(mutes, now, c, u)
            /\ \E i \in DOMAIN mutes :
                  /\ mutes[i].chat_id = c
                  /\ mutes[i].user_id = u
                  /\ mutes[i].admin_id \notin Users
                  /\ mutes[i].until = mutes[i].timestamp + 24 * 3600

\* A step in which unmute_user_command lifted the restriction of its target.
UnmuteSucceeds(t) == tasks[t].pc = "body" /\ tasks'[t].outcome = "unmuted"

\* C10 as stated: when a mute is lifted, the target is not actively muted
\* afterwards, whatever the mute's duration was, and the warnings are as
\* they were.
C10_LiftMakesInactive ==
    [][\A t \in TaskIds :
          UnmuteSucceeds(t) =>
              /\ ~IsActivelyMuted(mutes', now', tasks'[t].chat, tasks'[t].target)
              /\ warnings' = warnings]_vars

\* C11: unwarn_user aimed at a target without an active warning removes no
\* warning and leaves every stored record as it was; the target's expired
\* warnings stay in the collection, unaltered.
C11_UnwarnWithoutActiveIsNoop ==
    [][\A t \in TaskIds :
          ( /\ tasks[t].pc = "body"
            /\ tasks[t].cmd = "unwarn"
            /\ tasks'[t].pc = "done"
            /\ Len(ActiveWarnings(tasks[t].chat, tasks'[t].replyTo)) = 0 )
          => /\ warnings' = warnings
             /\ mutes' = mutes
             /\ tasks'[t].outcome # "removed"]_vars

\* unwarn_user ended for a target whose only warning had expired.
C11_Witness ==
    \E t \in TaskIds :
        /\ tasks[t].cmd = "unwarn"
        /\ tasks[t].pc = "done"
        /\ tasks[t].ran
        /\ tasks[t].replyTo \in Targets
        /\ Len(ActiveWarnings(tasks[t].chat, tasks[t].replyTo)) = 0
        /\ \E i \in 1..Len(warnings) :
              /\ warnings[i].chat_id = tasks[t].chat
              /\ warnings[i].user_id = tasks[t].replyTo
              /\ warnings[i].expiry # NoTime
              /\ warnings[i].expiry <= now

\* The sum of the changes of the karma updates of a pair that the store applied.
RECURSIVE NetChange(_, _)
NetChange(key, S) ==
    IF S = {} THEN 0
    ELSE LET o == CHOOSE x \in S : TRUE
         IN  (IF ops[o].name = "update_karma" /\ ops[o].key = key /\ ops[o].applied > 0
              THEN ops[o].change ELSE 0) + NetChange(key, S \ {o})

\* C12: whatever the interleaving of the concurrent update_karma calls on a
\* pair, the stored karma is the initial value plus the sum of the changes
\* applied: no update is lost.
C12_NoLostKarmaUpdate ==
    \A key \in KarmaKeys :
        (IF karma[key].has THEN karma[key].karma ELSE 0)
          = (IF karma0[key].has THEN karma0[key].karma ELSE 0) + NetChange(key, OpIds)

\* Two updates of one pair were in flight together, the second made before
\* the first was applied, and both have landed.
C12_Witness ==
    \E o1, o2 \in OpIds :
        /\ o1 # o2
        /\ ops[o1].key = ops[o2].key
        /\ ops[o1].name = "update_karma" /\ ops[o2].name = "update_karma"
        /\ ops[o1].pc = "done" /\ ops[o2].pc = "done"
        /\ ops[o1].applied = 1 /\ ops[o2].applied = 1
        /\ ops[o1].seen = ops[o2].seen
        /\ ops[o1].change = 1 /\ ops[o2].change = 1
        /\ karma[ops[o1].key].karma = karma0[ops[o1].key].karma + 2

\* The documents of a sequence.
Range(seq) == {seq[i] : i \in 1..Len(seq)}

\* A step in which call o returns to its caller.
Returns(o, name) ==
    /\ ops[o].pc = "call"
    /\ ops[o].name = name
    /\ ops'[o].pc = "done"

\* C13: get_warnings returns exactly the warnings of the pair whose expiry is
\* null or strictly later than the time of the query: none with expiry <= now,
\* none of another pair, and none of those missing.
C13_ActiveWarningsExact ==
    [][\A o \in OpIds :
          (Returns(o, "get_warnings") /\ ops'[o].result = "ok")
          => /\ \A d \in Range(ops'[o].docs) :
                   /\ << d.chat_id, d.user_id >> = ops[o].key
                   /\ (d.expiry = NoTime \/ d.expiry > now)
                   /\ d \in Range(warnings)
             /\ \A i \in 1..Len(warnings) :
                   ( /\ << warnings[i].chat_id, warnings[i].user_id >> = ops[o].key
                     /\ (warnings[i].expiry = NoTime \/ warnings[i].expiry > now) )
                   => warnings[i] \in Range(ops'[o].docs)]_vars

\* A query answered with a warning while the pair also had one that expired
\* at this very second.
C13_Witness ==
    \E o \in OpIds :
        /\ ops[o].name = "get_warnings"
        /\ ops[o].pc = "done"
        /\ Len(ops[o].docs) = 1
        /\ \E i \in 1..Len(warnings) :
              /\ << warnings[i].chat_id, warnings[i].user_id >> = ops[o].key
              /\ warnings[i].expiry = now
        /\ \E i \in 1..Len(warnings) :
              /\ << warnings[i].chat_id, warnings[i].user_id >> = ops[o].key
              /\ warnings[i].expiry = NoTime

\* C14: a call of a retry-wrapped method that the store fails twice and
\* would accept the third time runs three times and returns success, its
\* write landed once.
C14_ThirdAttemptSucceeds ==
    \A o \in OpIds :
        (ops[o].pc = "done" /\ ops[o].name \in RetryWrapped /\ ops[o].planned = 2)
        => /\ ops[o].attempts = 3
           /\ ops[o].result = "ok"
           /\ ops[o].applied = 1

\* C15: a call of a retry-wrapped method runs its body at most MAX_RETRIES
\* times and comes back: with its result, or with a DatabaseError made from
\* the store error of its last attempt, never with the store's own exception.
C15_RetryWrappedTerminates ==
    /\ [](\A o \in OpIds :
            ops[o].name \in RetryWrapped
            => /\ ops[o].attempts <= MAX_RETRIES
               /\ ops[o].pc = "done" =>
                     /\ ops[o].result \in {"ok", "DatabaseError"}
                     /\ ops[o].result = "DatabaseError" =>
                           (ops[o].cause = ops[o].attempts /\ ops[o].applied = 0))
    /\ \A o \in OpIds : (ops[o].pc = "call") ~> (ops[o].pc = "done")

\* A retry-wrapped call came back with DatabaseError, another with its result.
C15_Witness ==
    \E o1, o2 \in OpIds :
        /\ ops[o1].pc = "done" /\ ops[o1].name = "cleanup_expired_items"
        /\ ops[o1].result = "DatabaseError" /\ ops[o1].cause >= 1
        /\ ops[o2].pc = "done" /\ ops[o2].name = "add_or_update_user"
        /\ ops[o2].result = "ok"

\* C16: with cooldown T (60 seconds for "nukem"), a call of a non-admin d
\* seconds after the same user's last admission is rejected as OnCooldown with
\* T - d seconds reported when d < T, and admitted when d >= T, whatever
\* rejected calls lay in between.
C16_CooldownWindow ==
    [][/\ CooldownSeconds("nukem", << >>) = 60
       /\ \A t \in TaskIds :
            LET name == CooldownNameOf(tasks[t])
                t0 == lastAdmit[name][tasks[t].user]
                T == CooldownOf(tasks[t])
                d == now - t0
            IN  (CooldownDecides(t) /\ ~IsGlobalAdmin(tasks[t].user) /\ t0 # NoTime)
                => /\ d < T => /\ tasks'[t].coolRes = "rejected"
                               /\ tasks'[t].result = "OnCooldown"
                               /\ tasks'[t].remaining = T - d
                               /\ lastAdmit'[name][tasks[t].user] = t0
                   /\ d >= T => /\ tasks'[t].coolRes = "admitted"
                                /\ lastAdmit'[name][tasks[t].user] = now]_vars

\* A call rejected with r seconds left, and the same user's call admitted r
\* seconds later: exactly when the cooldown ended.
C16_Witness ==
    \E t1, t2 \in TaskIds :
        /\ tasks[t1].user = tasks[t2].user
        /\ tasks[t1].cmd = tasks[t2].cmd
        /\ tasks[t1].coolRes = "rejected"
        /\ tasks[t1].remaining > 0
        /\ tasks[t1].remaining < CooldownOf(tasks[t1])
        /\ tasks[t2].coolRes = "admitted"
        /\ tasks[t2].coolAt = tasks[t1].coolAt + tasks[t1].remaining

\* C17: a give_karma or remove_karma whose target is the actor changes no
\* user's karma and is answered with the notice kept for that case, not with
\* an error notice.
C17_SelfKarmaIsNoop ==
    \A t \in TaskIds :
        ( /\ tasks[t].cmd \in KarmaCommands
          /\ tasks[t].pc = "done"
          /\ tasks[t].ran
          /\ tasks[t].replyTo = tasks[t].user )
        => /\ karma = karma0
           /\ tasks[t].notices = 1
           /\ tasks[t].outcome = "self_karma"

\* The invocation was turned away by a gate, or its handler failed.
RejectedOrFailed(task) ==
    /\ task.pc = "done"
    /\ \/ task.result \in {"ChatTypeDenied", "OnCooldown", "Unauthorized"}
       \/ task.outcome \in {"error", "db_not_connected", "telegram_error"}

\* C18: a command that a gate rejects or whose handler fails is answered
\* with exactly one notice.
C18_ExactlyOneNotice ==
    \A t \in TaskIds : RejectedOrFailed(tasks[t]) => tasks[t].notices = 1

\* A step in which the body of a moderation command ends.
ModBodyEnds(t) ==
    /\ tasks[t].pc = "body"
    /\ tasks[t].cmd \in ModCommands
    /\ tasks'[t].pc = "done"

\* C19: a moderation command ends in one of two ways, told in one notice:
\* success, with the platform's restriction changed and the store written, or
\* failure, with neither of them touched.
C19_AllOrNothing ==
    [][\A t \in TaskIds :
          ModBodyEnds(t) =>
              LET success == tasks'[t].outcome \in {"warned", "unmuted"}
                  written == warnings' # warnings \/ mutes' # mutes
              IN  /\ tasks'[t].notices = tasks[t].notices + 1
                  /\ success => written
                  /\ ~success => (~written /\ restricted' = restricted)]_vars

\* C20: get_active_mutes returns a mute document of the chat exactly when
\* its until is null or later than the time of the query; each such mute
\* written by add_mute is in the answer.
C20_ActiveMutesExact ==
    [][\A o \in OpIds :
          (Returns(o, "get_active_mutes") /\ ops'[o].result = "ok")
          => \A i \in 1..Len(mutes) :
                (mutes[i].chat_id = ops[o].key[1] /\ MuteActive(mutes[i], now))
                <=> mutes[i] \in Range(ops'[o].docs)]_vars

\* A step in which the platform reported a new status of user u in chat c.
RoleChanged(c, u) == status'[c][u] # status[c][u]

\* C21: when a role change of a chat is observed while the chat's admin list
\* is cached, the list agrees with the change in the next state: it holds
\* the user if the new status is administrator or owner, and not otherwise.
C21_CacheFollowsRoleChange ==
    [][\A c \in Chats, u \in Users :
          (RoleChanged(c, u) /\ chat_admins[c].has)
          => /\ chat_admins'[c].has
             /\ u \in chat_admins'[c].ids <=> IsAdminStatus(status'[c][u])]_vars

\* C22: an admitted invocation has its usage time in the table from the step
\* of its admission on, so the same user's next invocation of the command
\* inside the cooldown is rejected, wherever the first one stands: waiting in
\* a later decorator, suspended in its body, or ended.
C22_RecordedBeforeHandler ==
    [][\A t1, t2 \in TaskIds :
          ( /\ t1 # t2
            /\ CooldownDecides(t2)
            /\ ~IsGlobalAdmin(tasks[t2].user)
            /\ tasks[t1].user = tasks[t2].user
            /\ CooldownNameOf(tasks[t1]) = CooldownNameOf(tasks[t2])
            /\ tasks[t1].coolRes = "admitted"
            /\ now - tasks[t1].coolAt < CooldownOf(tasks[t1]) )
          => /\ LAST_COMMAND_USAGE[CooldownNameOf(tasks[t1])][tasks[t1].user] >= tasks[t1].coolAt
             /\ tasks'[t2].coolRes = "rejected"
             /\ ~tasks'[t2].ran
             /\ tasks'[t2].pc = "done"]_vars

\* The second invocation was rejected while the first, admitted inside the
\* cooldown, had reached its body and not yet run it.
C22_Witness ==
    \E t1, t2 \in TaskIds :
        /\ t1 # t2
        /\ tasks[t1].user = tasks[t2].user
        /\ tasks[t1].cmd = tasks[t2].cmd
        /\ tasks[t1].coolRes = "admitted"
        /\ tasks[t1].pc = "body"
        /\ tasks[t2].coolRes = "rejected"
        /\ tasks[t2].pc = "done"
        /\ tasks[t2].coolAt >= tasks[t1].coolAt

\* C23: the rate-limit window is keyed by the user alone.  A non-admin's
\* call is rejected exactly when MAX_REQUESTS of that user's calls, from
\* whatever chat, were admitted within the period ending at it; and a call
\* by one user changes neither the window of another user nor the answer
\* the limiter would give that user.
C23_WindowPerUser ==
    [][\A u \in Users \ ADMIN_USER_IDS :
          RateCallBy(u) =>
             /\ rateLast'.limited <=> rateLast'.prior >= MAX_REQUESTS
             /\ \A v \in Users \ {u} :
                   /\ cache'[v] = cache[v]
                   /\ IsRateLimited(cache'[v], now') <=> IsRateLimited(cache[v], now)]_vars

\* C23 witness: a member was rejected after exactly MAX_REQUESTS admitted
\* calls within the period, sent to the group and in private, while
\* another member holds a window of its own.
C23_Witness ==
    \E u, v \in Users \ ADMIN_USER_IDS :
        /\ u # v
        /\ rateLast.user = u
        /\ rateLast.limited
        /\ Len(rateAdmits[u]) = MAX_REQUESTS
        /\ rateAdmits[u][1] > now - RATE_LIMIT_PERIOD
        /\ rateFrom[u] = Chats
        /\ cache[v].has /\ Len(cache[v].ts) = 1

\* C24: a warn_user call that ends with a Database at hand has stored one
\* more warning for its target, and the number its notice reports is the
\* number of the target's active warnings, the new one included.
C24_ReportedCountIsActive ==
    [][\A t \in TaskIds :
          ( /\ tasks[t].pc = "body" /\ tasks[t].cmd = "warn" /\ dbConnected
            /\ tasks'[t].pc = "done" )
          => \E u \in Targets :
                /\ Len(warnings') = Len(warnings) + 1
                /\ warnings'[Len(warnings')].user_id = u
                /\ warnings'[Len(warnings')].chat_id = tasks[t].chat
                /\ tasks'[t].count = Len(ActiveWarnings(tasks[t].chat, u))']_vars

\* A step in which cleanup_expired_items ran its two delete_many commands.
CleanupApplied(o) ==
    /\ ops[o].pc = "call" /\ ops[o].name = "cleanup_expired_items"
    /\ ops'[o].result = "ok"

\* C25: cleanup_expired_items deletes only warnings that get_warnings'
\* active filter would not return at that instant: the answer of the active
\* query is the same before and after a cleanup, for every pair, and a
\* warning without expiry is never deleted.
C25_CleanupKeepsActive ==
    [][\A o \in OpIds :
          CleanupApplied(o) =>
             \A k \in KarmaKeys :
                /\ ActiveWarnings(k[1], k[2])' = ActiveWarnings(k[1], k[2])
                /\ NoExpiryWarnings(k[1], k[2])' = NoExpiryWarnings(k[1], k[2])]_vars

\* C26: a rejecting rate-limit check appends nothing: after a non-admin's
\* call the window holds exactly the timestamps of that user's admitted
\* calls of the period, and a rejection leaves the admissions as they were.
\* A user who has MAX_REQUESTS admissions is admitted again as soon as the
\* oldest of the last MAX_REQUESTS is at least one period old.
C26_RejectionLeavesNoTrace ==
    [][\A u \in Users \ ADMIN_USER_IDS :
          RateCallBy(u) =>
             LET adm == rateAdmits[u]
                 oldest == Len(adm) - MAX_REQUESTS + 1
             IN  /\ cache'[u].ts =
                       SelectSeq(rateAdmits'[u], LAMBDA x : x > now - RATE_LIMIT_PERIOD)
                 /\ rateLast'.limited => rateAdmits'[u] = adm
                 /\ (Len(adm) >= MAX_REQUESTS /\ now - adm[oldest] >= RATE_LIMIT_PERIOD)
                       => ~rateLast'.limited]_vars

\* C26 witness: a member was admitted MAX_REQUESTS times, rejected once,
\* and admitted again at the instant the oldest admission became one period
\* old; nobody else called.
C26_Witness ==
    \E u \in Users \ ADMIN_USER_IDS :
        /\ rateLast.user = u
        /\ ~rateLast.limited
        /\ rateCalls = MAX_REQUESTS + 2
        /\ Len(rateAdmits[u]) = MAX_REQUESTS + 1
        /\ \A v \in Users \ {u} : rateAdmits[v] = << >>
        /\ rateLast.t - rateAdmits[u][1] = RATE_LIMIT_PERIOD

\* A step of the invocation in slot t.
TaskStep(t) == tasks[t].pc # "idle" /\ tasks'[t] # tasks[t]

\* C27: an invocation of a global admin never creates or updates an entry
\* of LAST_COMMAND_USAGE or of the rate limiter's cache: a step of such an
\* invocation, and a rate-limit call for a global admin, leave both tables
\* as they were, and neither ever holds an entry for a global admin.
C27_AdminLeavesNoEntry ==
    [][/\ \A t \in TaskIds :
             (TaskStep(t) /\ IsGlobalAdmin(tasks[t].user)) =>
                 (LAST_COMMAND_USAGE' = LAST_COMMAND_USAGE /\ cache' = cache)
       /\ \A a \in ADMIN_USER_IDS :
             /\ RateCallBy(a) =>
                   (LAST_COMMAND_USAGE' = LAST_COMMAND_USAGE /\ cache' = cache)
             /\ cache'[a] = NoWindow
             /\ \A name \in CooldownNames : LAST_COMMAND_USAGE'[name][a] = NoTime]_vars

\* C27 witness: a global admin's mention_all went through the cooldown gate
\* and ran, the last rate-limit call was the admin's, a chat admin has an
\* entry in both tables and the global admin in neither.
C27_Witness ==
    \E a \in ADMIN_USER_IDS, u \in Users \ ADMIN_USER_IDS :
        /\ tasks[1].user = a
        /\ tasks[1].coolRes = "bypass"
        /\ tasks[1].ran
        /\ rateLast.user = a
        /\ cache[u].has
        /\ LAST_COMMAND_USAGE[CooldownNameOf(tasks[1])][u] # NoTime
        /\ cache[a] = NoWindow
        /\ LAST_COMMAND_USAGE[CooldownNameOf(tasks[1])][a] = NoTime

\* C28: RateLimiter.cleanup is observationally neutral: whenever and however
\* often it ran, is_rate_limited answers for every user, now and at every
\* later time, what it would answer had cleanup never run.
C28_CleanupNeutral ==
    \A u \in Users :
        \A t \in now..(MaxTime + RATE_LIMIT_PERIOD) :
            IsRateLimited(cache[u], t) <=> IsRateLimited(cacheNoCleanup[u], t)

\* C28 witness: cleanup removed an expired timestamp of a member's window,
\* and a later call of that member was rejected.
C28_Witness ==
    \E u \in Users \ ADMIN_USER_IDS :
        /\ u \in lastCleanup.changed
        /\ rateCalls > lastCleanup.calls
        /\ rateLast.user = u
        /\ rateLast.limited
        /\ Len(rateAdmits[u]) = MAX_REQUESTS + 1

\* C29: authorization fails closed: an invocation of an actor who is not a
\* global admin, for which a platform lookup of the gate raised, ended as
\* Unauthorized and its handler did not run.
C29_FailsClosed ==
    \A t \in TaskIds :
        (tasks[t].apiFailed /\ ~IsGlobalAdmin(tasks[t].user)) =>
            /\ tasks[t].authRes = "rejected"
            /\ tasks[t].result = "Unauthorized"
            /\ ~tasks[t].ran
            /\ tasks[t].pc = "done"

\* C29 witness: the lookup raised for an actor who was an administrator of
\* the chat, and the actor was rejected.
C29_Witness ==
    \E t \in TaskIds :
        /\ tasks[t].apiFailed
        /\ ~IsGlobalAdmin(tasks[t].user)
        /\ tasks[t].authTruth
        /\ tasks[t].authRes = "rejected"
        /\ ~tasks[t].ran

\* C30: user 2, administrator of the group from the start and subject of no
\* role change, is authorized by every decision of the authorization gate
\* on a command it sends to the group, unless the platform lookup made for
\* that very decision raised; and the group's cached admin list, whenever
\* present, holds user 2.
C30_StandingAdminAuthorized ==
    /\ \A t \in TaskIds :
          ( /\ tasks[t].user = 2 /\ tasks[t].chat = "grp"
            /\ tasks[t].authRes # "none" /\ ~tasks[t].apiFailed )
          => tasks[t].authRes = "authorized"
    /\ chat_admins["grp"].has => 2 \in chat_admins["grp"].ids
====
